---- MODULE Spec2Model ----
(***************************************************************************)
(* Model of the Freelancer MCP server: the session handle                  *)
(* (models.py, FreelancerSession), the three tools registered by           *)
(* FreelancerMCPServer._setup_tools (server.py) and the response           *)
(* normalizer (_extract_* helpers).                                        *)
(*                                                                         *)
(* Python values are tagged records.  A Python dict built by the server    *)
(* (a normalized record, an envelope) is a TLA+ record with the dict's     *)
(* keys.  An object coming from the SDK is PyObj(a), a being the function  *)
(* from the attribute names the object has to their values: an attribute   *)
(* that is absent is simply not in DOMAIN a.                               *)
(***************************************************************************)
EXTENDS Integers, Sequences, FiniteSets, TLC

VARIABLES oauth_token, phase, unhandled, session, attempts, made, upstreamUp,
          prevFailed, last

vars == <<oauth_token, phase, unhandled, session, attempts, made, upstreamUp,
          prevFailed, last>>

(***************************************************************************)
(* Bounds of the model.                                                    *)
(***************************************************************************)
\* longest upstream result list the SDK returns in the model
MaxRecords == 3
\* caller-supplied limits 0..MaxSmallLimit are tried besides the range ends
MaxSmallLimit == 3
\* readings of datetime.now() are drawn from 0..MaxClock
MaxClock == 1

(***************************************************************************)
(* Program constants.                                                      *)
(***************************************************************************)
\* Field(ge=1) of ProjectSearchRequest.limit and UserSearchRequest.limit
LimitMin == 1
\* Field(le=100) of ProjectSearchRequest.limit and UserSearchRequest.limit
LimitMax == 100

(***************************************************************************)
(* Python values.                                                          *)
(***************************************************************************)
None == [t |-> "None"]
PyInt(n) == [t |-> "int", n |-> n]
PyStr(s) == [t |-> "str", s |-> s]
PyList(l) == [t |-> "list", l |-> l]
PyDict(d) == [t |-> "dict", d |-> d]
PyObj(a) == [t |-> "obj", a |-> a]

\* an exception propagating out of an expression
Raise(e) == [t |-> "raise", exc |-> e]
IsRaise(v) == "t" \in DOMAIN v /\ v.t = "raise"

\* hasattr(x, name): only SDK objects carry the attribute names the server
\* probes; None, int, str, list and dict have none of them
hasattr(x, name) == x.t = "obj" /\ name \in DOMAIN x.a

\* getattr(x, name, default)
getattr(x, name, default) == IF hasattr(x, name) THEN x.a[name] ELSE default

\* bool(x), as `if x` and `a and b` evaluate it
Truthy(x) ==
  CASE x.t = "None" -> FALSE
    [] x.t = "int" -> x.n # 0
    [] x.t = "str" -> x.s # ""
    [] x.t = "list" -> x.l # <<>>
    [] x.t = "dict" -> DOMAIN x.d # {}
    [] x.t = "obj" -> TRUE

\* str(x)
str(x) ==
  CASE x.t = "None" -> PyStr("None")
    [] x.t = "int" -> PyStr(ToString(x.n))
    [] x.t = "str" -> x
    [] x.t = "list" -> PyStr("[...]")
    [] x.t = "dict" -> PyStr("{...}")
    [] x.t = "obj" -> PyStr("<object>")

Min(a, b) == IF a <= b THEN a ELSE b

\* iter(x): the items a for loop walks (as a list), or TypeError
\* (a str yields its characters, a dict its keys: strings either way)
Iterate(x) ==
  CASE x.t = "list" -> x
    [] x.t = "str" -> PyList([i \in 1..Len(x.s) |-> PyStr("c")])
    [] x.t = "dict" -> PyList([i \in 1..Cardinality(DOMAIN x.d) |-> PyStr("k")])
    [] OTHER -> Raise("TypeError")

\* a variant of the slice that keeps one item too many, x[:k + 1]
SliceOffByOne(x, k) ==
  CASE x.t = "list" -> PyList(SubSeq(x.l, 1, Min(k + 1, Len(x.l))))
    [] x.t = "str" -> x
    [] OTHER -> Raise("TypeError")

\* x[:k] for k >= 1, or TypeError
Slice(x, k) ==
  CASE x.t = "list" -> PyList(SubSeq(x.l, 1, Min(k, Len(x.l))))
    [] x.t = "str" -> IF k >= Len(x.s) THEN x ELSE PyStr(SubSeq(x.s, 1, k))
    [] OTHER -> Raise("TypeError")

(***************************************************************************)
(* Response normalizer: server.py, _extract_* helpers.                     *)
(***************************************************************************)
\* a variant that answers null when the project has no budget
_extract_budget_info_null(project) ==
  IF hasattr(project, "budget") /\ Truthy(project.a.budget)
  THEN [minimum |-> getattr(project.a.budget, "minimum", None),
        maximum |-> getattr(project.a.budget, "maximum", None),
        currency |-> IF hasattr(project.a.budget, "currency")
                     THEN getattr(project.a.budget.a.currency, "code", None)
                     ELSE None]
  ELSE None

_extract_budget_info(project) ==
  IF hasattr(project, "budget") /\ Truthy(project.a.budget)
  THEN [minimum |-> getattr(project.a.budget, "minimum", None),
        maximum |-> getattr(project.a.budget, "maximum", None),
        currency |-> IF hasattr(project.a.budget, "currency")
                     THEN getattr(project.a.budget.a.currency, "code", None)
                     ELSE None]
  ELSE [minimum |-> None, maximum |-> None, currency |-> None]

_extract_owner_info(project) ==
  IF hasattr(project, "owner") /\ Truthy(project.a.owner)
  THEN [id |-> getattr(project.a.owner, "id", None),
        username |-> getattr(project.a.owner, "username", None),
        display_name |-> getattr(project.a.owner, "display_name", None)]
  ELSE [id |-> None, username |-> None, display_name |-> None]

_extract_location_info(user) ==
  IF hasattr(user, "location") /\ Truthy(user.a.location)
  THEN [country |-> IF hasattr(user.a.location, "country")
                    THEN getattr(user.a.location.a.country, "name", None)
                    ELSE None,
        city |-> IF hasattr(user.a.location, "city")
                 THEN getattr(user.a.location.a.city, "name", None)
                 ELSE None]
  ELSE [country |-> None, city |-> None]

_extract_reputation_info(user) ==
  IF hasattr(user, "reputation") /\ Truthy(user.a.reputation)
  THEN [entire_site |-> IF hasattr(user.a.reputation, "entire_site")
                        THEN getattr(user.a.reputation.a.entire_site, "rating", None)
                        ELSE None,
        category_ratings |-> getattr(user.a.reputation, "category_ratings", PyList(<<>>))]
  ELSE [entire_site |-> None, category_ratings |-> PyList(<<>>)]

_extract_user_jobs_info(user) ==
  IF hasattr(user, "jobs") /\ Truthy(user.a.jobs)
  THEN LET jobs == Iterate(user.a.jobs)
       IN IF IsRaise(jobs) THEN jobs
          ELSE PyList([i \in DOMAIN jobs.l |->
                        [id |-> getattr(jobs.l[i], "id", None),
                         name |-> getattr(jobs.l[i], "name", None)]])
  ELSE PyList(<<>>)

\* the dict literal of search_projects, lines 72-82
project_info(project) ==
  [id |-> getattr(project, "id", None),
   title |-> getattr(project, "title", None),
   description |-> getattr(project, "description", None),
   type |-> getattr(project, "type", None),
   budget |-> _extract_budget_info(project),
   owner |-> _extract_owner_info(project),
   time_updated |-> str(getattr(project, "time_updated", None)),
   submitdate |-> str(getattr(project, "submitdate", None)),
   bid_count |-> getattr(project, "bid_count", None)]

\* the dict literal of search_freelancers, lines 134-144: the values are
\* evaluated in order, so an exception in the last one discards the dict
freelancer_info(user) ==
  LET jobs == _extract_user_jobs_info(user)
  IN IF IsRaise(jobs) THEN jobs
     ELSE [id |-> getattr(user, "id", None),
           username |-> getattr(user, "username", None),
           display_name |-> getattr(user, "display_name", None),
           avatar |-> getattr(user, "avatar", None),
           location |-> _extract_location_info(user),
           status |-> getattr(user, "status", None),
           reputation |-> _extract_reputation_info(user),
           hourly_rate |-> getattr(user, "hourly_rate", None),
           jobs |-> jobs]

(***************************************************************************)
(* Session handle: models.py, FreelancerSession.  The handle is the record *)
(* [session, attempts, made]: session is 0 for None and otherwise the      *)
(* identity of the client object, attempts counts the calls of the SDK's   *)
(* Session constructor and made the client objects it has built.           *)
(***************************************************************************)
Handle == [session |-> session, attempts |-> attempts, made |-> made]

\* what a call on the handle yields: the handle afterwards, the value
\* returned (ret, 0 when it raised) and the exception raised, if any
Returned(h, ret) == [session |-> h.session, attempts |-> h.attempts, made |-> h.made,
                     ret |-> ret, exc |-> "none", msg |-> ""]
Raised(h, e, m) == [session |-> h.session, attempts |-> h.attempts, made |-> h.made,
                    ret |-> 0, exc |-> e, msg |-> m]

\* _initialize_session; ctorRaises: whether Session(...) raises this time
_initialize_session(h, ctorRaises) ==
  IF ~oauth_token
  THEN Raised(h, "AuthenticationError", "OAuth token is required")
  ELSE IF ctorRaises
       THEN Raised([h EXCEPT !.attempts = @ + 1],
                   "AuthenticationError", "Failed to create session")
       ELSE Returned([h EXCEPT !.attempts = @ + 1, !.made = @ + 1,
                               !.session = h.made + 1], 0)

\* a variant of get_session that builds a client on every call
get_session_always_new(h, ctorRaises) ==
  LET a == _initialize_session(h, ctorRaises)
  IN IF a.exc # "none" THEN a
     ELSE IF a.session = 0
          THEN Raised(a, "AuthenticationError", "No valid session available")
          ELSE Returned(a, a.session)

\* get_session
get_session(h, ctorRaises) ==
  LET a == IF h.session = 0 THEN _initialize_session(h, ctorRaises)
           ELSE Returned(h, 0)
  IN IF a.exc # "none" THEN a
     ELSE IF a.session = 0
          THEN Raised(a, "AuthenticationError", "No valid session available")
          ELSE Returned(a, a.session)

\* the outcomes of Session(...) a call on the handle can meet: the
\* constructor runs only when the handle holds no client
CtorOutcomes(h) == IF h.session = 0 THEN BOOLEAN ELSE {FALSE}

(***************************************************************************)
(* Request validation: models.py, Field(ge=1, le=100) on limit.  The       *)
(* hosting runtime builds the request model from the caller's arguments    *)
(* before the tool function is entered.                                    *)
(***************************************************************************)
ValidRequest(req) == req.limit >= LimitMin /\ req.limit <= LimitMax

RawLimits == (0..MaxSmallLimit) \cup {LimitMax, LimitMax + 1}
Requests == [query : {"python"}, limit : RawLimits]

(***************************************************************************)
(* Tool dispatcher: server.py, _setup_tools.                               *)
(***************************************************************************)
\* a variant of the except branch that passes the exception on to the caller
ErrorEnvelopeLeaky(e) ==
  [success |-> FALSE, error |-> "Search failed", message |-> e]

\* the except branch of both search tools
ErrorEnvelope(e) ==
  [success |-> FALSE, error |-> "Search failed",
   message |-> "Please check your OAuth token and try again"]

NoResult == [none |-> TRUE]

\* the record of one tool call: what it returned or raised, the step that
\* failed, the get_session outcome, the SDK answer, and how many upstream
\* records the normalizing loop entered
Call(op, req, outcome, exc, failedAt, result, got, lookups, sdkCalls, sdk, touched) ==
  [op |-> op, req |-> req, outcome |-> outcome, exc |-> exc, failedAt |-> failedAt,
   result |-> result, got |-> got, lookups |-> lookups, sdkCalls |-> sdkCalls,
   sdk |-> sdk, touched |-> touched]

NoCall == Call("none", [query |-> "", limit |-> 0], "none", "none", "none",
               NoResult, Returned([session |-> 0, attempts |-> 0, made |-> 0], 0),
               0, 0, None, 0)

\* a call whose arguments fail validation: the ValidationError is raised
\* before the function body (and its try block) is entered
Rejected(op, req, h) ==
  Call(op, req, "raised", "ValidationError", "validate", NoResult,
       Returned(h, 0), 0, 0, None, 0)

\* a call whose try block caught exception e at step failedAt
Caught(op, req, e, failedAt, got, sdkCalls, sdk, touched) ==
  Call(op, req, "returned", e, failedAt, ErrorEnvelope(e), got, 1, sdkCalls, sdk, touched)

\* the for loop of search_projects, lines 71-83, from item i on
RECURSIVE projects_loop(_, _, _)
projects_loop(items, i, acc) ==
  IF i > Len(items) THEN [exc |-> "none", data |-> acc, touched |-> Len(items)]
  ELSE LET info == project_info(items[i])
       IN IF IsRaise(info) THEN [exc |-> info.exc, data |-> acc, touched |-> i]
          ELSE projects_loop(items, i + 1, Append(acc, info))

\* the for loop of search_freelancers, lines 133-145, from item i on
RECURSIVE freelancers_loop(_, _, _)
freelancers_loop(items, i, acc) ==
  IF i > Len(items) THEN [exc |-> "none", data |-> acc, touched |-> Len(items)]
  ELSE LET info == freelancer_info(items[i])
       IN IF IsRaise(info) THEN [exc |-> info.exc, data |-> acc, touched |-> i]
          ELSE freelancers_loop(items, i + 1, Append(acc, info))

\* search_projects, lines 49-98, for a validated request
search_projects(req, h, ctorRaises, filterRaises, sdk) ==
  LET op == "search_projects"
      got == get_session(h, ctorRaises)
  IN IF got.exc # "none"
     THEN Caught(op, req, got.exc, "get_session", got, 0, None, 0)
     ELSE IF filterRaises
     THEN Caught(op, req, "ValueError", "filter", got, 0, None, 0)
     ELSE IF IsRaise(sdk)
     THEN Caught(op, req, sdk.exc, "sdk_call", got, 1, sdk, 0)
     ELSE IF hasattr(sdk, "projects") /\ Truthy(sdk.a.projects)
     THEN LET items == Slice(sdk.a.projects, req.limit)
          IN IF IsRaise(items)
             THEN Caught(op, req, items.exc, "slice", got, 1, sdk, 0)
             ELSE LET r == projects_loop(Iterate(items).l, 1, <<>>)
                  IN IF r.exc # "none"
                     THEN Caught(op, req, r.exc, "normalize", got, 1, sdk, r.touched)
                     ELSE Call(op, req, "returned", "none", "none",
                               [success |-> TRUE, query |-> req.query,
                                total_results |-> Len(r.data), projects |-> r.data],
                               got, 1, 1, sdk, r.touched)
     ELSE Call(op, req, "returned", "none", "none",
               [success |-> TRUE, query |-> req.query,
                total_results |-> 0, projects |-> <<>>],
               got, 1, 1, sdk, 0)

\* search_freelancers, lines 111-160, for a validated request
search_freelancers(req, h, ctorRaises, sdk) ==
  LET op == "search_freelancers"
      got == get_session(h, ctorRaises)
  IN IF got.exc # "none"
     THEN Caught(op, req, got.exc, "get_session", got, 0, None, 0)
     ELSE IF IsRaise(sdk)
     THEN Caught(op, req, sdk.exc, "sdk_call", got, 1, sdk, 0)
     ELSE IF hasattr(sdk, "users") /\ Truthy(sdk.a.users)
     THEN LET items == Slice(sdk.a.users, req.limit)
          IN IF IsRaise(items)
             THEN Caught(op, req, items.exc, "slice", got, 1, sdk, 0)
             ELSE LET r == freelancers_loop(Iterate(items).l, 1, <<>>)
                  IN IF r.exc # "none"
                     THEN Caught(op, req, r.exc, "normalize", got, 1, sdk, r.touched)
                     ELSE Call(op, req, "returned", "none", "none",
                               [success |-> TRUE, query |-> req.query,
                                total_results |-> Len(r.data), freelancers |-> r.data],
                               got, 1, 1, sdk, r.touched)
     ELSE Call(op, req, "returned", "none", "none",
               [success |-> TRUE, query |-> req.query,
                total_results |-> 0, freelancers |-> <<>>],
               got, 1, 1, sdk, 0)

\* settings.api_url and settings.server_version, opaque to the server
settings == [api_url |-> "settings.api_url", server_version |-> "settings.server_version"]

\* datetime.now().isoformat() at clock reading now
isoformat(now) == PyStr(ToString(now))

\* a variant that leaves the configuration keys out of the healthy mapping
HealthyStatusShort(now) ==
  [server_status |-> "healthy", api_connection |-> "active", session_valid |-> TRUE,
   timestamp |-> isoformat(now)]

\* the mapping health_check returns when get_session succeeded, lines 173-182
HealthyStatus(now) ==
  [server_status |-> "healthy", api_connection |-> "active", session_valid |-> TRUE,
   timestamp |-> isoformat(now), api_url |-> settings.api_url,
   version |-> settings.server_version]

\* the mapping health_check returns from its except branch, lines 184-192
DegradedStatus(msg, now) ==
  [server_status |-> "degraded", api_connection |-> "failed", session_valid |-> FALSE,
   error |-> msg, timestamp |-> isoformat(now)]

NoRequest == [query |-> "", limit |-> 0]

\* a variant of health_check that probes the remote API with the client
health_check_ping(h, ctorRaises, now) ==
  LET got == get_session(h, ctorRaises)
  IN IF got.exc = "none" /\ upstreamUp
     THEN Call("health_check", NoRequest, "returned", "none", "none",
               HealthyStatus(now), got, 1, 1, None, 0)
     ELSE Call("health_check", NoRequest, "returned", "ConnectionError", "sdk_call",
               DegradedStatus("upstream unavailable", now), got, 1, 1, None, 0)

\* health_check, lines 170-192
health_check(h, ctorRaises, now) ==
  LET got == get_session(h, ctorRaises)
  IN IF got.exc = "none"
     THEN Call("health_check", NoRequest, "returned", "none", "none",
               HealthyStatus(now), got, 1, 0, None, 0)
     ELSE Call("health_check", NoRequest, "returned", got.exc, "get_session",
               DegradedStatus(got.msg, now), got, 1, 0, None, 0)

(***************************************************************************)
(* The upstream collaborator: what the SDK's search functions answer.      *)
(* The sample objects range from empty to fully populated, with absent,    *)
(* null, falsy and non-mapping values in the nested positions.             *)
(***************************************************************************)
Empty == [x \in {} |-> None]

FullProject ==
  PyObj([id |-> PyInt(1), title |-> PyStr("Build a site"),
         description |-> PyStr("text"), type |-> PyStr("fixed"),
         budget |-> PyObj([minimum |-> PyInt(10), maximum |-> PyInt(50),
                           currency |-> PyObj([code |-> PyStr("USD")])]),
         owner |-> PyObj([id |-> PyInt(7), username |-> PyStr("ann"),
                          display_name |-> PyStr("Ann")]),
         time_updated |-> PyInt(1700), submitdate |-> PyInt(1600),
         bid_count |-> PyInt(3)])

SampleProjects ==
  << FullProject,
     PyObj(Empty),
     PyObj([id |-> PyInt(2), budget |-> None, owner |-> None, time_updated |-> None]),
     PyObj([id |-> PyInt(3), title |-> None,
            budget |-> PyObj([minimum |-> PyInt(5), currency |-> None]),
            owner |-> PyInt(0), submitdate |-> PyStr("2024-01-01")]),
     PyObj([id |-> PyInt(4), budget |-> PyStr("n/a"), owner |-> PyList(<<>>),
            bid_count |-> PyInt(0)]),
     PyObj([id |-> PyInt(5), budget |-> PyObj([maximum |-> PyInt(9)]),
            owner |-> PyObj([username |-> PyStr("bob")])]),
     PyDict([id |-> PyInt(6), budget |-> PyInt(1)]) >>

FullUser ==
  PyObj([id |-> PyInt(1), username |-> PyStr("ann"), display_name |-> PyStr("Ann"),
         avatar |-> PyStr("a.png"),
         location |-> PyObj([country |-> PyObj([name |-> PyStr("Jordan")]),
                             city |-> PyObj([name |-> PyStr("Amman")])]),
         status |-> PyStr("active"),
         reputation |-> PyObj([entire_site |-> PyObj([rating |-> PyInt(5)]),
                               category_ratings |-> PyList(<<PyInt(4)>>)]),
         hourly_rate |-> PyInt(30),
         jobs |-> PyList(<<PyObj([id |-> PyInt(3), name |-> PyStr("PHP")]),
                           PyObj([id |-> PyInt(9)])>>)])

SampleUsers ==
  << FullUser,
     PyObj(Empty),
     PyObj([id |-> PyInt(2), location |-> None, reputation |-> None, jobs |-> None]),
     PyObj([id |-> PyInt(3),
            location |-> PyObj([country |-> None, city |-> None]),
            reputation |-> PyObj([entire_site |-> None]),
            jobs |-> PyList(<<>>)]),
     PyObj([id |-> PyInt(4), location |-> PyInt(0), reputation |-> PyStr(""),
            jobs |-> PyInt(5)]),
     PyObj([id |-> PyInt(5), location |-> PyStr("Amman"), reputation |-> PyInt(3),
            jobs |-> PyStr("x")]),
     PyDict([id |-> PyInt(6), jobs |-> PyInt(1)]) >>

\* the result lists of the model: every run of at most MaxRecords
\* consecutive samples, starting at any sample (cyclically)
ResultLists(samples) ==
  { [i \in 1..n |-> samples[((s + i - 1) % Len(samples)) + 1]] :
      s \in 0..(Len(samples) - 1), n \in 0..MaxRecords }

\* exceptions the SDK call raises when the upstream is unavailable
SdkErrors == {"NotFoundException", "ConnectionError"}

\* the answers of the SDK's search_projects
ProjectAnswers ==
  IF upstreamUp
  THEN { PyObj([projects |-> PyList(l)]) : l \in ResultLists(SampleProjects) }
       \cup { PyObj(Empty), PyObj([projects |-> None]), PyObj([projects |-> PyInt(5)]),
              PyDict([projects |-> PyList(<<FullProject>>)]) }
  ELSE { Raise(e) : e \in SdkErrors }

\* the answers of the SDK's search_freelancers
UserAnswers ==
  IF upstreamUp
  THEN { PyObj([users |-> PyList(l)]) : l \in ResultLists(SampleUsers) }
       \cup { PyObj(Empty), PyObj([users |-> None]), PyObj([users |-> PyInt(5)]),
              PyDict([users |-> PyList(<<FullUser>>)]) }
  ELSE { Raise(e) : e \in SdkErrors }

(***************************************************************************)
(* The state machine.                                                      *)
(***************************************************************************)
Init ==
  /\ oauth_token \in BOOLEAN
  /\ phase = "boot"
  /\ unhandled = "none"
  /\ session = 0
  /\ attempts = 0
  /\ made = 0
  /\ upstreamUp = TRUE
  /\ prevFailed = FALSE
  /\ last = NoCall

\* FreelancerSession.__init__: self.session = None, then _initialize_session
FreelancerSession_init(ctorRaises) ==
  _initialize_session([session |-> 0, attempts |-> 0, made |-> 0], ctorRaises)

\* main: FreelancerMCPServer() constructs the session handle; an exception
\* is logged and raised again; run() returns at once without a token and
\* otherwise serves
Main ==
  /\ phase = "boot"
  /\ \E ctorRaises \in BOOLEAN :
       LET r == FreelancerSession_init(ctorRaises)
       IN /\ attempts' = r.attempts
          /\ made' = r.made
          /\ session' = r.session
          /\ unhandled' = r.exc
          /\ phase' = IF r.exc # "none" THEN "failed"
                      ELSE IF ~oauth_token THEN "exited" ELSE "serving"
  /\ UNCHANGED <<oauth_token, upstreamUp, prevFailed, last>>

\* whether the call recorded in c is a search the SDK call failed
SearchFailed(c) == c.op \in {"search_projects", "search_freelancers"} /\ c.failedAt = "sdk_call"

\* the effect of a tool call c on the state
Record(c) ==
  /\ last' = c
  /\ session' = c.got.session
  /\ attempts' = c.got.attempts
  /\ made' = c.got.made
  /\ prevFailed' = SearchFailed(last)
  /\ UNCHANGED <<oauth_token, phase, unhandled, upstreamUp>>

SearchProjects ==
  /\ phase = "serving"
  /\ \E req \in Requests :
       IF ~ValidRequest(req)
       THEN Record(Rejected("search_projects", req, Handle))
       ELSE \E ctorRaises \in CtorOutcomes(Handle) :
              \E env \in {[filterRaises |-> TRUE, sdk |-> None]}
                           \cup {[filterRaises |-> FALSE, sdk |-> a] : a \in ProjectAnswers} :
                Record(search_projects(req, Handle, ctorRaises, env.filterRaises, env.sdk))

SearchFreelancers ==
  /\ phase = "serving"
  /\ \E req \in Requests :
       IF ~ValidRequest(req)
       THEN Record(Rejected("search_freelancers", req, Handle))
       ELSE \E ctorRaises \in CtorOutcomes(Handle) :
              \E sdk \in UserAnswers :
                Record(search_freelancers(req, Handle, ctorRaises, sdk))

HealthCheck ==
  /\ phase = "serving"
  /\ \E ctorRaises \in CtorOutcomes(Handle) :
       \E now \in 0..MaxClock :
         Record(health_check(Handle, ctorRaises, now))

\* the remote API becomes unavailable, or available again
UpstreamChange ==
  /\ upstreamUp' = ~upstreamUp
  /\ UNCHANGED <<oauth_token, phase, unhandled, session, attempts, made, prevFailed, last>>

Next == Main \/ SearchProjects \/ SearchFreelancers \/ HealthCheck \/ UpstreamChange

Spec == Init /\ [][Next]_vars

(***************************************************************************)
(* Properties.                                                             *)
(***************************************************************************)
Searches == {"search_projects", "search_freelancers"}

\* the steps inside the try block of a search tool
TrySteps == {"get_session", "filter", "sdk_call", "slice", "normalize"}

ProjectKeys == {"id", "title", "description", "type", "budget", "owner",
                "time_updated", "submitdate", "bid_count"}
ScalarProjectKeys == ProjectKeys \ {"budget", "owner"}
FreelancerKeys == {"id", "username", "display_name", "avatar", "location",
                   "status", "reputation", "hourly_rate", "jobs"}
ScalarFreelancerKeys == FreelancerKeys \ {"location", "reputation", "jobs"}

\* the last call is a search of kind op that returned the success envelope
Succeeded(op) == last.op = op /\ last.outcome = "returned" /\ last.failedAt = "none"

\* the upstream records behind the records of the last success envelope
\* (the attribute named attr of the SDK's answer, when it is a list)
Listed(attr) == hasattr(last.sdk, attr) /\ last.sdk.a[attr].t = "list"
Projects == IF Listed("projects") THEN last.sdk.a.projects.l ELSE <<>>
Users == IF Listed("users") THEN last.sdk.a.users.l ELSE <<>>

\* the attribute named parent is absent from x, or falsy
ParentMissing(x, parent) == ~hasattr(x, parent) \/ ~Truthy(x.a[parent])

\* C1: when obtaining the session, building the filter, the SDK call or
\* the processing of the result raises inside a search tool, the tool
\* returns exactly {success: false, error: 'Search failed', message:
\* 'Please check your OAuth token and try again'}, whatever the exception.
C1_SearchFailureEnvelope ==
  (last.op \in Searches /\ last.failedAt \in TrySteps) =>
     /\ last.outcome = "returned"
     /\ last.result = [success |-> FALSE, error |-> "Search failed",
                       message |-> "Please check your OAuth token and try again"]

C1_Witness ==
  /\ last.op = "search_freelancers"
  /\ last.failedAt = "sdk_call"
  /\ last.exc = "ConnectionError"
  /\ last.result.success = FALSE

\* C2: without an OAuth token no unhandled exception occurs from start-up
\* on, and every tool call returns a mapping: success false for the
\* searches, server_status 'degraded' for health_check.
C2_TokenAbsentNeverUnhandled ==
  ~oauth_token =>
     /\ unhandled = "none"
     /\ phase # "failed"
     /\ (last.op \in Searches =>
           last.outcome = "returned" /\ last.result.success = FALSE)
     /\ (last.op = "health_check" =>
           last.outcome = "returned" /\ last.result.server_status = "degraded")

\* C3: a failure at any step of a search tool, the validation of the
\* caller's arguments included, is returned as the generic failure
\* envelope; no exception leaves the tool, and an invalid request causes
\* neither a session lookup nor an SDK call.
C3_AnyFailureEnveloped ==
  last.op \in Searches =>
     /\ last.outcome = "returned"
     /\ (last.failedAt # "none" =>
           last.result = [success |-> FALSE, error |-> "Search failed",
                          message |-> "Please check your OAuth token and try again"])
     /\ (~ValidRequest(last.req) => last.lookups = 0 /\ last.sdkCalls = 0)

\* C4: every normalized project and freelancer record has exactly its
\* fixed key set, and every scalar top-level key whose attribute is
\* absent upstream (time_updated and submitdate included) is null.
C4_FixedKeysNullDefaults ==
  /\ Succeeded("search_projects") =>
       \A i \in DOMAIN last.result.projects :
          /\ DOMAIN last.result.projects[i] = ProjectKeys
          /\ \A k \in ScalarProjectKeys :
               ~hasattr(Projects[i], k) => last.result.projects[i][k] = None
  /\ Succeeded("search_freelancers") =>
       \A i \in DOMAIN last.result.freelancers :
          /\ DOMAIN last.result.freelancers[i] = FreelancerKeys
          /\ \A k \in ScalarFreelancerKeys :
               ~hasattr(Users[i], k) => last.result.freelancers[i][k] = None

\* C5 as stated: when the parent attribute is absent or falsy, budget,
\* owner, location and reputation are present with every leaf null,
\* reputation being {entire_site: null, category_ratings: null}.
C5_AllLeavesNull ==
  /\ Succeeded("search_projects") =>
       \A i \in DOMAIN last.result.projects :
          /\ ParentMissing(Projects[i], "budget") =>
               last.result.projects[i].budget
                 = [minimum |-> None, maximum |-> None, currency |-> None]
          /\ ParentMissing(Projects[i], "owner") =>
               last.result.projects[i].owner
                 = [id |-> None, username |-> None, display_name |-> None]
  /\ Succeeded("search_freelancers") =>
       \A i \in DOMAIN last.result.freelancers :
          /\ ParentMissing(Users[i], "location") =>
               last.result.freelancers[i].location = [country |-> None, city |-> None]
          /\ ParentMissing(Users[i], "reputation") =>
               last.result.freelancers[i].reputation
                 = [entire_site |-> None, category_ratings |-> None]

\* C5 as amended: the same, except that the reputation emitted for an
\* absent or falsy parent is {entire_site: null, category_ratings: []}:
\* the list-valued leaf defaults to the empty list, not to null.
C5_NestedDefaults ==
  /\ Succeeded("search_projects") =>
       \A i \in DOMAIN last.result.projects :
          /\ "budget" \in DOMAIN last.result.projects[i]
          /\ "owner" \in DOMAIN last.result.projects[i]
          /\ ParentMissing(Projects[i], "budget") =>
               last.result.projects[i].budget
                 = [minimum |-> None, maximum |-> None, currency |-> None]
          /\ ParentMissing(Projects[i], "owner") =>
               last.result.projects[i].owner
                 = [id |-> None, username |-> None, display_name |-> None]
  /\ Succeeded("search_freelancers") =>
       \A i \in DOMAIN last.result.freelancers :
          /\ "location" \in DOMAIN last.result.freelancers[i]
          /\ "reputation" \in DOMAIN last.result.freelancers[i]
          /\ ParentMissing(Users[i], "location") =>
               last.result.freelancers[i].location = [country |-> None, city |-> None]
          /\ ParentMissing(Users[i], "reputation") =>
               last.result.freelancers[i].reputation
                 = [entire_site |-> None, category_ratings |-> PyList(<<>>)]

C5_Witness ==
  /\ Succeeded("search_freelancers")
  /\ \E i \in DOMAIN last.result.freelancers :
        /\ hasattr(Users[i], "reputation")
        /\ ParentMissing(Users[i], "reputation")
        /\ ParentMissing(Users[i], "location")
        /\ last.result.freelancers[i].reputation.category_ratings = PyList(<<>>)

\* C6: with a validated limit k and an upstream list of n >= k records,
\* no record at an index beyond k is normalized; the call succeeds exactly
\* when the first k records normalize, and the success envelope then holds
\* exactly k records, the i-th being the normalization of the i-th upstream
\* record, with total_results = k.
C6_Truncation ==
  /\ (last.op = "search_projects" /\ last.sdkCalls = 1 /\ Listed("projects")
        /\ Len(Projects) >= last.req.limit) =>
       LET k == last.req.limit
       IN /\ last.touched <= k
          /\ last.failedAt \in {"none", "normalize"}
          /\ (last.failedAt = "none") = (\A i \in 1..k : ~IsRaise(project_info(Projects[i])))
          /\ last.failedAt = "none" =>
               /\ Len(last.result.projects) = k
               /\ last.result.total_results = k
               /\ \A i \in 1..k : last.result.projects[i] = project_info(Projects[i])
  /\ (last.op = "search_freelancers" /\ last.sdkCalls = 1 /\ Listed("users")
        /\ Len(Users) >= last.req.limit) =>
       LET k == last.req.limit
       IN /\ last.touched <= k
          /\ last.failedAt \in {"none", "normalize"}
          /\ (last.failedAt = "none") = (\A i \in 1..k : ~IsRaise(freelancer_info(Users[i])))
          /\ last.failedAt = "none" =>
               /\ Len(last.result.freelancers) = k
               /\ last.result.total_results = k
               /\ \A i \in 1..k : last.result.freelancers[i] = freelancer_info(Users[i])

\* a success with more upstream records than the limit, one of the records
\* beyond the limit being one whose normalization would raise
C6_Witness ==
  /\ Succeeded("search_freelancers")
  /\ Listed("users")
  /\ last.req.limit >= 2
  /\ Len(Users) > last.req.limit
  /\ last.result.total_results = last.req.limit
  /\ \E i \in (last.req.limit + 1)..Len(Users) : IsRaise(freelancer_info(Users[i]))

\* C7: the per-record extraction raises no exception, whatever the
\* upstream object holds: no search fails in its normalizing loop, and
\* every record the loop entered is in the result.
C7_NormalizationTotal ==
  last.op \in Searches =>
     /\ last.failedAt # "normalize"
     /\ (Succeeded("search_projects") => Len(last.result.projects) = last.touched)
     /\ (Succeeded("search_freelancers") => Len(last.result.freelancers) = last.touched)

\* C8: get_session returns a client (never null) or raises
\* AuthenticationError; a client that is present is returned as it is,
\* with no construction, so that the client is always the first one
\* constructed; construction is attempted only while there is no client,
\* and fails with AuthenticationError when the token is missing or the
\* client constructor raises.
C8_SessionHandle ==
  /\ last.lookups > 0 =>
       \/ last.got.exc = "none" /\ last.got.ret # 0 /\ last.got.ret = session
       \/ last.got.exc = "AuthenticationError"
  /\ phase = "serving" => session = 1 /\ made = 1 /\ attempts = 1
  /\ phase = "failed" => unhandled = "AuthenticationError" /\ session = 0 /\ made = 0
  /\ (~oauth_token /\ phase # "boot") => phase = "failed" /\ attempts = 0
  /\ attempts > made => phase = "failed"
  /\ (oauth_token /\ phase # "boot" /\ attempts = made) => phase = "serving"

\* a second tool call got the client the first one got
C8_Witness ==
  /\ phase = "serving"
  /\ prevFailed
  /\ last.lookups = 1
  /\ last.got.ret = 1
  /\ made = 1

\* C9: health_check never raises; when get_session succeeds it returns
\* server_status 'healthy', api_connection 'active', session_valid true
\* with the keys timestamp, api_url, version; when it fails it returns
\* server_status 'degraded', api_connection 'failed', session_valid false
\* with the keys error, timestamp.
C9_HealthCheckOutcomes ==
  last.op = "health_check" =>
     /\ last.outcome = "returned"
     /\ IF last.got.exc = "none"
        THEN /\ last.result.server_status = "healthy"
             /\ last.result.api_connection = "active"
             /\ last.result.session_valid = TRUE
             /\ DOMAIN last.result = {"server_status", "api_connection", "session_valid",
                                      "timestamp", "api_url", "version"}
        ELSE /\ last.result.server_status = "degraded"
             /\ last.result.api_connection = "failed"
             /\ last.result.session_valid = FALSE
             /\ DOMAIN last.result = {"server_status", "api_connection", "session_valid",
                                      "error", "timestamp"}

C9_Witness ==
  /\ last.op = "health_check"
  /\ last.got.exc = "none"
  /\ last.result.server_status = "healthy"
  /\ last.lookups = 1

\* C10, the part about states: health_check makes no SDK call, and with a
\* client in the handle it reports api_connection 'active', also right
\* after a search that failed on its SDK call.
C10_HealthState ==
  last.op = "health_check" =>
     /\ last.sdkCalls = 0
     /\ (last.got.ret # 0 => last.result.api_connection = "active")
     /\ (prevFailed => last.result.server_status = "healthy")

\* C10: health_check issues no remote call and leaves the session handle
\* as it was, so its result does not depend on the upstream: it reports
\* 'active' while the upstream is down and every valid search returns the
\* failure envelope, and a failed search does not change what it reports.
C10_HealthIndependentOfUpstream ==
  /\ []C10_HealthState
  /\ [][last'.op = "health_check" =>
          session' = session /\ made' = made /\ attempts' = attempts]_vars
  /\ [][(~upstreamUp /\ last' # last /\ last'.op \in Searches /\ ValidRequest(last'.req)) =>
          last'.result = [success |-> FALSE, error |-> "Search failed",
                          message |-> "Please check your OAuth token and try again"]]_vars

\* healthy while the upstream is down, right after a search that failed
C10_Witness ==
  /\ last.op = "health_check"
  /\ prevFailed
  /\ ~upstreamUp
  /\ session # 0
  /\ last.result.server_status = "healthy"
  /\ last.result.api_connection = "active"

====
